---- MODULE Spec2Model ----
(***************************************************************************)
(* Model of bot/executors/executor.py: the Executor that runs a batch of   *)
(* workers on StoppableThreads, at most max_workers at a time.             *)
(*                                                                         *)
(* Threads of control: the caller's thread (start, stop) and one thread    *)
(* per started worker; a worker thread runs worker.start, which ends by    *)
(* calling notify_observers, that is Executor.update, on that same thread. *)
(* update is @synchronized (one re-entrant lock per Executor instance);    *)
(* start, run_jobs called from start, stop and clean_up take no lock.      *)
(* Every statement of the source is one step; the steps of different       *)
(* threads interleave freely, as Python threads do.                        *)
(***************************************************************************)
EXTENDS Integers, Sequences, FiniteSets, TLC

\* ------------------------------------------------------------------ bounds
MaxWorkers == 3      \* most workers created over all start() calls
MaxMaxWorkers == 2   \* largest max_workers the constructor is given
MaxStarts == 2       \* most start() calls
MaxStops == 1        \* most stop() calls
MaxDups == 1         \* most repeated completion signals

Caller == 0
Worker == 1..MaxWorkers
Threads == {Caller} \cup Worker

VARIABLES
    max_workers,       \* self._max_workers
    pending_none,      \* self._pending_workers is None
    pending_workers,   \* the items of the Queue self._pending_workers, head first
    running_workers,   \* self._running_workers, a list
    running_threads,   \* the keys of self._running_threads (each maps to that worker's thread)
    lock,              \* holders of the @synchronized lock: {} or {worker thread}
    pc,                \* each thread's position
    worker_iteration,  \* run_jobs' local worker_iteration, per executing thread
    worker,            \* the local worker in run_jobs / stop, per executing thread (0: unset)
    workers,           \* _initialize's local workers: [none, list]
    stop_index,        \* position of stop()'s list iterator (1-based)
    observers,         \* workers the Executor has been added to as observer
    started,           \* workers in the order thread.start() was called on their thread
    killed,            \* workers whose thread got kill()
    notified,          \* number of notify_observers() calls of the Executor
    raised,            \* last exception that ended a call on each thread ("" none)
    handled,           \* per worker: update() invocations that returned or raised
    next_id,           \* identity of the next worker the factory creates
    starts, stops, dups, \* calls made so far (bounded)
    in_list            \* per worker: what update's `observable in self._running_workers` found

vars == <<max_workers, pending_none, pending_workers, running_workers, running_threads,
          lock, pc, worker_iteration, worker, workers, stop_index, observers, started,
          killed, notified, raised, handled, next_id, starts, stops, dups, in_list>>

containers == <<pending_none, pending_workers, running_workers, running_threads>>
history == <<starts, stops, dups>>

\* ----------------------------------------------------------------- helpers
Range(s) == {s[i] : i \in 1..Len(s)}

\* `x in list`
InList(x, list) == \E i \in 1..Len(list) : list[i] = x

\* list.remove(x): drops the first occurrence
ListRemove(list, x) ==
    LET i == CHOOSE j \in 1..Len(list) : list[j] = x /\ \A k \in 1..(j - 1) : list[k] # x
    IN  [k \in 1..(Len(list) - 1) |-> IF k < i THEN list[k] ELSE list[k + 1]]

\* a get() that returns the head and leaves it queued
QueuePeek(q) == q

\* Queue.get() on a non-empty queue: what stays queued
QueueGet(q) == Tail(q)

\* Queue.put(x)
QueuePut(q, x) == Append(q, x)

\* the check without its `len(workers) == 0` half, on a list that is not falsy
NoWorkersNoneOnly(ws) == ws.none

\* `not workers or len(workers) == 0` in _initialize
NoWorkers(ws) == ws.none \/ Len(ws.list) = 0

NoList == [none |-> FALSE, list |-> <<>>]

\* create_workers(): None, or a list of workers never returned before
\* (possibly empty), as long as MaxWorkers allows
FactoryResults ==
    {[none |-> TRUE, list |-> <<>>]} \cup
    {[none |-> FALSE, list |-> [i \in 1..k |-> next_id + i - 1]] :
        k \in 0..(MaxWorkers + 1 - next_id)}

\* the two operands of the property `processing`
\* processing without the `is not None` test of line 121
ProcessingPendingNotNone == ~pending_none

ProcessingPending == ~pending_none /\ pending_workers # <<>>
ProcessingRunning == Len(running_workers) > 0
processing == ProcessingPending \/ ProcessingRunning

\* a worker whose thread is running its work (started, completion not yet signalled)
Active(w) == pc[w] = "work"

\* ---------------------------------------------------------------- __init__
Init ==
    /\ max_workers \in 1..MaxMaxWorkers
    /\ pending_none = TRUE
    /\ pending_workers = <<>>
    /\ running_workers = <<>>
    /\ running_threads = {}
    /\ lock = {}
    /\ pc = [t \in Threads |-> IF t = Caller THEN "idle" ELSE "new"]
    /\ worker_iteration = [t \in Threads |-> 0]
    /\ worker = [t \in Threads |-> 0]
    /\ workers = NoList
    /\ stop_index = 1
    /\ observers = {}
    /\ started = <<>>
    /\ killed = {}
    /\ notified = 0
    /\ raised = [t \in Threads |-> ""]
    /\ handled = [w \in Worker |-> 0]
    /\ next_id = 1
    /\ starts = 0 /\ stops = 0 /\ dups = 0
    /\ in_list = [w \in Worker |-> FALSE]

\* How a thread leaves run_jobs or update: the caller is back from start();
\* a worker thread leaves update, which releases the lock, and ends.
Leave(t, error) ==
    /\ pc' = [pc EXCEPT ![t] = IF t = Caller THEN "idle"
                               ELSE IF error = "" THEN "done" ELSE "failed"]
    /\ lock' = IF t = Caller THEN lock ELSE lock \ {t}
    /\ raised' = [raised EXCEPT ![t] = error]
    /\ handled' = IF t = Caller THEN handled ELSE [handled EXCEPT ![t] = @ + 1]
    /\ worker_iteration' = [worker_iteration EXCEPT ![t] = 0]
    /\ worker' = [worker EXCEPT ![t] = 0]

\* ------------------------------------------------------------------- start
\* start() -> _initialize(): workers = self.create_workers()
Start(result) ==
    /\ pc[Caller] = "idle"
    /\ starts < MaxStarts
    /\ workers' = result
    /\ next_id' = next_id + Len(result.list)
    /\ starts' = starts + 1
    /\ pc' = [pc EXCEPT ![Caller] = "init_check"]
    /\ raised' = [raised EXCEPT ![Caller] = ""]
    /\ UNCHANGED <<max_workers, containers, lock, worker_iteration, worker, stop_index,
                   observers, started, killed, notified, handled, stops, dups, in_list>>

\* _initialize: if not workers or len(workers) == 0: raise OperationalException
InitializeCheck ==
    /\ pc[Caller] = "init_check"
    /\ IF NoWorkers(workers)
       THEN /\ raised' = [raised EXCEPT ![Caller] = "OperationalException"]
            /\ pc' = [pc EXCEPT ![Caller] = "idle"]
            /\ workers' = NoList
       ELSE /\ pc' = [pc EXCEPT ![Caller] = "init_queue"]
            /\ UNCHANGED <<raised, workers>>
    /\ UNCHANGED <<max_workers, containers, lock, worker_iteration, worker, stop_index,
                   observers, started, killed, notified, handled, next_id, history,
                   in_list>>

\* _initialize: self._pending_workers = Queue()
InitializeQueue ==
    /\ pc[Caller] = "init_queue"
    /\ pending_none' = FALSE
    /\ pending_workers' = <<>>
    /\ pc' = [pc EXCEPT ![Caller] = "init_put"]
    /\ UNCHANGED <<max_workers, running_workers, running_threads, lock, worker_iteration,
                   worker, workers, stop_index, observers, started, killed, notified,
                   raised, handled, next_id, history, in_list>>

\* _initialize: for worker in workers: self._pending_workers.put(worker);
\* after the last one start() goes on to run_jobs()
InitializePut ==
    /\ pc[Caller] = "init_put"
    /\ IF workers.list # <<>>
       THEN /\ pending_workers' = QueuePut(pending_workers, Head(workers.list))
            /\ workers' = [workers EXCEPT !.list = Tail(@)]
            /\ UNCHANGED pc
       ELSE /\ pc' = [pc EXCEPT ![Caller] = "rj_init"]
            /\ UNCHANGED <<pending_workers, workers>>
    /\ UNCHANGED <<max_workers, pending_none, running_workers, running_threads, lock,
                   worker_iteration, worker, stop_index, observers, started, killed,
                   notified, raised, handled, next_id, history, in_list>>

\* ---------------------------------------------------------------- run_jobs
\* worker_iteration = self._max_workers - len(self._running_workers)
RunJobsInit(t) ==
    /\ pc[t] = "rj_init"
    /\ worker_iteration' = [worker_iteration EXCEPT ![t] = max_workers - Len(running_workers)]
    /\ pc' = [pc EXCEPT ![t] = "rj_loop"]
    /\ UNCHANGED <<max_workers, containers, lock, worker, workers, stop_index, observers,
                   started, killed, notified, raised, handled, next_id, history, in_list>>

\* while worker_iteration > 0 and not self._pending_workers.empty()
RunJobsLoop(t) ==
    /\ pc[t] = "rj_loop"
    /\ IF worker_iteration[t] > 0 /\ pending_none
       THEN Leave(t, "AttributeError")
       ELSE IF worker_iteration[t] > 0 /\ pending_workers # <<>>
            THEN /\ pc' = [pc EXCEPT ![t] = "rj_get"]
                 /\ UNCHANGED <<lock, raised, handled, worker_iteration, worker>>
            ELSE Leave(t, "")
    /\ UNCHANGED <<max_workers, containers, workers, stop_index, observers, started,
                   killed, notified, next_id, history, in_list>>

\* worker = self._pending_workers.get(); worker_iteration -= 1
\* get() on an empty Queue blocks until a put() on that Queue object; nothing
\* puts on a Queue after _initialize has filled it, so the thread stays blocked.
RunJobsGet(t) ==
    /\ pc[t] = "rj_get"
    /\ IF pending_none
       THEN Leave(t, "AttributeError") /\ UNCHANGED pending_workers
       ELSE IF pending_workers = <<>>
            THEN /\ pc' = [pc EXCEPT ![t] = "rj_blocked"]
                 /\ UNCHANGED <<lock, raised, handled, worker_iteration, worker,
                                pending_workers>>
            ELSE /\ worker' = [worker EXCEPT ![t] = Head(pending_workers)]
                 /\ pending_workers' = QueueGet(pending_workers)
                 /\ worker_iteration' = [worker_iteration EXCEPT ![t] = @ - 1]
                 /\ pc' = [pc EXCEPT ![t] = "rj_subscribe"]
                 /\ UNCHANGED <<lock, raised, handled>>
    /\ UNCHANGED <<max_workers, pending_none, running_workers, running_threads, workers,
                   stop_index, observers, started, killed, notified, next_id, history,
                   in_list>>

\* run_jobs without line 85: the thread is created, the Executor not subscribed
RunJobsNoSubscribe(t) ==
    /\ pc[t] = "rj_subscribe"
    /\ pc' = [pc EXCEPT ![t] = "rj_thread_start"]
    /\ UNCHANGED <<max_workers, containers, lock, worker_iteration, worker, workers,
                   stop_index, observers, started, killed, notified, raised, handled,
                   next_id, history, in_list>>

\* thread = StoppableThread(target=worker.start); worker.add_observer(self)
RunJobsSubscribe(t) ==
    /\ pc[t] = "rj_subscribe"
    /\ observers' = observers \cup {worker[t]}
    /\ pc' = [pc EXCEPT ![t] = "rj_thread_start"]
    /\ UNCHANGED <<max_workers, containers, lock, worker_iteration, worker, workers,
                   stop_index, started, killed, notified, raised, handled, next_id,
                   history, in_list>>

\* thread.start(): the worker's thread begins worker.start
RunJobsThreadStart(t) ==
    /\ pc[t] = "rj_thread_start"
    /\ started' = Append(started, worker[t])
    /\ pc' = [pc EXCEPT ![t] = "rj_record_thread", ![worker[t]] = "work"]
    /\ UNCHANGED <<max_workers, containers, lock, worker_iteration, worker, workers,
                   stop_index, observers, killed, notified, raised, handled, next_id,
                   history, in_list>>

\* self._running_threads[worker] = thread
RunJobsRecordThread(t) ==
    /\ pc[t] = "rj_record_thread"
    /\ running_threads' = running_threads \cup {worker[t]}
    /\ pc' = [pc EXCEPT ![t] = "rj_record_worker"]
    /\ UNCHANGED <<max_workers, pending_none, pending_workers, running_workers, lock,
                   worker_iteration, worker, workers, stop_index, observers, started,
                   killed, notified, raised, handled, next_id, history, in_list>>

\* self._running_workers.append(worker)
RunJobsRecordWorker(t) ==
    /\ pc[t] = "rj_record_worker"
    /\ running_workers' = Append(running_workers, worker[t])
    /\ worker' = [worker EXCEPT ![t] = 0]
    /\ pc' = [pc EXCEPT ![t] = "rj_loop"]
    /\ UNCHANGED <<max_workers, pending_none, pending_workers, running_threads, lock,
                   worker_iteration, workers, stop_index, observers, started, killed,
                   notified, raised, handled, next_id, history, in_list>>

\* ----------------------------------------------------- the worker's thread
\* worker.start has done its work and calls notify_observers(): every observer's
\* update(worker) is called on this thread; Executor.update waits for the lock.
\* A worker the Executor does not observe ends without a call.
WorkerFinish(w) ==
    /\ pc[w] = "work"
    /\ pc' = [pc EXCEPT ![w] = IF w \in observers THEN "wait" ELSE "done"]
    /\ UNCHANGED <<max_workers, containers, lock, worker_iteration, worker, workers,
                   stop_index, observers, started, killed, notified, raised, handled,
                   next_id, history, in_list>>

\* kill() is a request: a worker that got it may end without completing
\* (or may ignore it and complete, by WorkerFinish)
WorkerCancelled(w) ==
    /\ pc[w] = "work"
    /\ w \in killed
    /\ pc' = [pc EXCEPT ![w] = "cancelled"]
    /\ UNCHANGED <<max_workers, containers, lock, worker_iteration, worker, workers,
                   stop_index, observers, started, killed, notified, raised, handled,
                   next_id, history, in_list>>

\* a worker raises its completion signal again: one more update(worker) call
DuplicateSignal(w) ==
    /\ pc[w] = "done"
    /\ w \in observers
    /\ dups < MaxDups
    /\ dups' = dups + 1
    /\ pc' = [pc EXCEPT ![w] = "wait"]
    /\ UNCHANGED <<max_workers, containers, lock, worker_iteration, worker, workers,
                   stop_index, observers, started, killed, notified, raised, handled,
                   next_id, starts, stops, in_list>>

\* ------------------------------------------------------------------ update
\* an update() that does not wait for the lock (the decorator left out)
LockIgnored == TRUE

\* @synchronized: the instance's lock is held by no thread
LockFree == lock = {}

\* @synchronized: enter update(observable) once the lock is free
UpdateAcquire(w) ==
    /\ pc[w] = "wait"
    /\ LockFree
    /\ lock' = {w}
    /\ pc' = [pc EXCEPT ![w] = "update_in"]
    /\ UNCHANGED <<max_workers, containers, worker_iteration, worker, workers, stop_index,
                   observers, started, killed, notified, raised, handled, next_id,
                   history, in_list>>

\* if observable in self._running_workers:
UpdateIn(w) ==
    /\ pc[w] = "update_in"
    /\ in_list' = [in_list EXCEPT ![w] = InList(w, running_workers)]
    /\ pc' = [pc EXCEPT ![w] = IF InList(w, running_workers) THEN "update_remove"
                               ELSE "update_pending"]
    /\ UNCHANGED <<max_workers, containers, lock, worker_iteration, worker, workers,
                   stop_index, observers, started, killed, notified, raised, handled,
                   next_id, history>>

\* self._running_workers.remove(observable); ValueError when it is not there
UpdateRemove(w) ==
    /\ pc[w] = "update_remove"
    /\ IF InList(w, running_workers)
       THEN /\ running_workers' = ListRemove(running_workers, w)
            /\ pc' = [pc EXCEPT ![w] = "update_pending"]
            /\ UNCHANGED <<lock, raised, handled, worker_iteration, worker>>
       ELSE /\ Leave(w, "ValueError")
            /\ UNCHANGED running_workers
    /\ UNCHANGED <<max_workers, pending_none, pending_workers, running_threads, workers,
                   stop_index, observers, started, killed, notified, next_id, history,
                   in_list>>

\* if not self.processing: the first operand of processing's `or`
UpdateProcessingPending(w) ==
    /\ pc[w] = "update_pending"
    /\ pc' = [pc EXCEPT ![w] = IF ProcessingPending THEN "rj_init" ELSE "update_running"]
    /\ UNCHANGED <<max_workers, containers, lock, worker_iteration, worker, workers,
                   stop_index, observers, started, killed, notified, raised, handled,
                   next_id, history, in_list>>

\* the second operand of processing's `or`; else: self.run_jobs()
UpdateProcessingRunning(w) ==
    /\ pc[w] = "update_running"
    /\ pc' = [pc EXCEPT ![w] = IF ProcessingRunning THEN "rj_init" ELSE "update_notify"]
    /\ UNCHANGED <<max_workers, containers, lock, worker_iteration, worker, workers,
                   stop_index, observers, started, killed, notified, raised, handled,
                   next_id, history, in_list>>

\* self.notify_observers(), then update returns
UpdateNotify(w) ==
    /\ pc[w] = "update_notify"
    /\ notified' = notified + 1
    /\ Leave(w, "")
    /\ UNCHANGED <<max_workers, containers, workers, stop_index, observers, started,
                   killed, next_id, history, in_list>>

\* -------------------------------------------------------------------- stop
\* stop(): for worker in self._running_workers (the iterator starts at the front)
Stop ==
    /\ pc[Caller] = "idle"
    /\ stops < MaxStops
    /\ stops' = stops + 1
    /\ stop_index' = 1
    /\ pc' = [pc EXCEPT ![Caller] = "stop_loop"]
    /\ raised' = [raised EXCEPT ![Caller] = ""]
    /\ UNCHANGED <<max_workers, containers, lock, worker_iteration, worker, workers,
                   observers, started, killed, notified, handled, next_id, starts, dups,
                   in_list>>

\* the list iterator's next(): the element at its index, if the list is that long
StopLoop ==
    /\ pc[Caller] = "stop_loop"
    /\ IF stop_index <= Len(running_workers)
       THEN /\ worker' = [worker EXCEPT ![Caller] = running_workers[stop_index]]
            /\ stop_index' = stop_index + 1
            /\ pc' = [pc EXCEPT ![Caller] = "stop_kill"]
       ELSE /\ pc' = [pc EXCEPT ![Caller] = "clean_pending"]
            /\ stop_index' = 1
            /\ UNCHANGED worker
    /\ UNCHANGED <<max_workers, containers, lock, worker_iteration, workers, observers,
                   started, killed, notified, raised, handled, next_id, history,
                   in_list>>

\* stop_running_worker: thread = self._running_threads[worker]; thread.kill()
StopRunningWorker ==
    /\ pc[Caller] = "stop_kill"
    /\ IF worker[Caller] \in running_threads
       THEN /\ killed' = killed \cup {worker[Caller]}
            /\ pc' = [pc EXCEPT ![Caller] = "stop_loop"]
            /\ worker' = [worker EXCEPT ![Caller] = 0]
            /\ UNCHANGED <<lock, raised, handled, worker_iteration>>
       ELSE /\ Leave(Caller, "KeyError")
            /\ UNCHANGED killed
    /\ UNCHANGED <<max_workers, containers, workers, stop_index, observers, started,
                   notified, next_id, history, in_list>>

\* clean_up: self._pending_workers = None
CleanUpPending ==
    /\ pc[Caller] = "clean_pending"
    /\ pending_none' = TRUE
    /\ pending_workers' = <<>>
    /\ pc' = [pc EXCEPT ![Caller] = "clean_running"]
    /\ UNCHANGED <<max_workers, running_workers, running_threads, lock, worker_iteration,
                   worker, workers, stop_index, observers, started, killed, notified,
                   raised, handled, next_id, history, in_list>>

\* clean_up: self._running_workers = []
CleanUpRunning ==
    /\ pc[Caller] = "clean_running"
    /\ running_workers' = <<>>
    /\ pc' = [pc EXCEPT ![Caller] = "clean_threads"]
    /\ UNCHANGED <<max_workers, pending_none, pending_workers, running_threads, lock,
                   worker_iteration, worker, workers, stop_index, observers, started,
                   killed, notified, raised, handled, next_id, history, in_list>>

\* clean_up: self._running_threads = {}; stop() returns
CleanUpThreads ==
    /\ pc[Caller] = "clean_threads"
    /\ running_threads' = {}
    /\ pc' = [pc EXCEPT ![Caller] = "idle"]
    /\ UNCHANGED <<max_workers, pending_none, pending_workers, running_workers, lock,
                   worker_iteration, worker, workers, stop_index, observers, started,
                   killed, notified, raised, handled, next_id, history, in_list>>

\* ---------------------------------------------------------------- run_jobs
\* run_jobs() called from the caller's thread, outside start() and update()
CallRunJobs ==
    /\ pc[Caller] = "idle"
    /\ pc' = [pc EXCEPT ![Caller] = "rj_init"]
    /\ raised' = [raised EXCEPT ![Caller] = ""]
    /\ UNCHANGED <<max_workers, containers, lock, worker_iteration, worker, workers,
                   stop_index, observers, started, killed, notified, handled, next_id,
                   history, in_list>>

\* ---------------------------------------------------------- specifications
RunJobs(t) ==
    \/ RunJobsInit(t)
    \/ RunJobsLoop(t)
    \/ RunJobsGet(t)
    \/ RunJobsSubscribe(t)
    \/ RunJobsThreadStart(t)
    \/ RunJobsRecordThread(t)
    \/ RunJobsRecordWorker(t)

Update(w) ==
    \/ UpdateAcquire(w)
    \/ UpdateIn(w)
    \/ UpdateRemove(w)
    \/ UpdateProcessingPending(w)
    \/ UpdateProcessingRunning(w)
    \/ UpdateNotify(w)

Initialize == InitializeCheck \/ InitializeQueue \/ InitializePut

\* One start() on a new Executor, its workers running to completion.
RunNext ==
    \/ \E result \in FactoryResults : starts = 0 /\ Start(result)
    \/ Initialize
    \/ \E t \in Threads : RunJobs(t)
    \/ \E w \in Worker : WorkerFinish(w)
    \/ \E w \in Worker : Update(w)

RunSpec == Init /\ [][RunNext]_vars

\* start() called again and again (while earlier workers still run), no stop().
RestartNext ==
    \/ \E result \in FactoryResults : Start(result)
    \/ Initialize
    \/ \E t \in Threads : RunJobs(t)
    \/ \E w \in Worker : WorkerFinish(w)
    \/ \E w \in Worker : Update(w)

RestartSpec == Init /\ [][RestartNext]_vars

\* One successful start(), then one stop() while its workers run or complete;
\* the caller makes no further call.
StopNext ==
    \/ \E result \in FactoryResults : starts = 0 /\ Start(result)
    \/ Initialize
    \/ starts = 1 /\ next_id > 1 /\ Stop
    \/ StopLoop
    \/ StopRunningWorker
    \/ CleanUpPending
    \/ CleanUpRunning
    \/ CleanUpThreads
    \/ \E t \in Threads : RunJobs(t)
    \/ \E w \in Worker : WorkerFinish(w)
    \/ \E w \in Worker : WorkerCancelled(w)
    \/ \E w \in Worker : Update(w)

StopSpec == Init /\ [][StopNext]_vars

\* Any sequence of start(), stop() and run_jobs() calls from the caller's
\* thread, workers completing, being cancelled, or signalling again.
Next ==
    \/ \E result \in FactoryResults : Start(result)
    \/ CallRunJobs
    \/ Initialize
    \/ Stop
    \/ StopLoop
    \/ StopRunningWorker
    \/ CleanUpPending
    \/ CleanUpRunning
    \/ CleanUpThreads
    \/ \E t \in Threads : RunJobs(t)
    \/ \E w \in Worker : WorkerFinish(w)
    \/ \E w \in Worker : WorkerCancelled(w)
    \/ \E w \in Worker : DuplicateSignal(w)
    \/ \E w \in Worker : Update(w)

Spec == Init /\ [][Next]_vars

\* ------------------------------------------------------------------ claims
\* the workers the factory has returned so far; in RunSpec, the one batch
Created == 1..(next_id - 1)
\* w's thread was started and w has called notify_observers
Signalled(w) == pc[w] \notin {"new", "work", "cancelled"}
NoDuplicates(s) == \A i, j \in 1..Len(s) : s[i] = s[j] => i = j

\* C1: in every reachable state RunningWorkers holds at most max_workers workers.
C1_RunningWithinMax == Len(running_workers) <= max_workers

\* C2: whenever a "batch complete" notification has been sent, every worker of
\* the batch has been started and has raised its completion signal.
C2_NotifiedAfterAllCompleted ==
    notified > 0 => \A w \in Created : Signalled(w)

\* C3: over the run of one start(), notify_observers() is called at most once.
C3_NotifiedAtMostOnce == notified <= 1

\* C4: a run of one successful start() in which every started worker has
\* completed and every thread has returned (so nothing more can happen) has
\* started every worker, has notified, and has emptied RunningWorkers.
C4_RunDrains ==
    (starts = 1 /\ next_id > 1 /\ pc[Caller] = "idle"
        /\ \A w \in Worker : pc[w] \in {"new", "done"})
    => /\ \A w \in Created : w \in Range(started)
       /\ notified >= 1
       /\ running_workers = <<>>
       /\ ~processing

\* C5: threads are started in the order the workers were put in the queue
\* (the factory's workers are numbered in that order).
C5_DispatchFifo ==
    \A i, j \in 1..Len(started) : i < j => started[i] < started[j]

\* C6: while no factory call has returned a worker, nothing is queued, running,
\* subscribed, started or notified, and each start() that returned has raised
\* OperationalException; and any start() whose factory result is empty or
\* missing ends at the check, raising, with the containers, the started
\* threads, the subscriptions and the notifications as they were.
C6_EmptyFactoryRaises ==
    /\ [](next_id = 1 =>
            /\ pending_workers = <<>> /\ running_workers = <<>> /\ running_threads = {}
            /\ started = <<>> /\ observers = {} /\ notified = 0
            /\ (starts > 0 /\ pc[Caller] = "idle"
                    => raised[Caller] = "OperationalException"))
    /\ [][(pc[Caller] = "init_check" /\ pc'[Caller] # "init_check"
             /\ (workers.none \/ workers.list = <<>>))
          => /\ raised'[Caller] = "OperationalException"
             /\ pc'[Caller] = "idle"
             /\ UNCHANGED <<containers, started, observers, notified>>]_vars

\* a start() has raised on a new Executor
C6_Witness ==
    /\ next_id = 1
    /\ pc[Caller] = "idle"
    /\ raised[Caller] = "OperationalException"

\* C7: at the step where stop() returns, every worker still active (so active
\* during the call) has had kill() called on its thread, and the three
\* containers are empty.
C7_StopKillsAndResets ==
    [][(pc[Caller] = "clean_threads" /\ pc'[Caller] = "idle")
       => /\ {w \in Worker : Active(w)} \subseteq killed'
          /\ pending_workers' = <<>>
          /\ running_workers' = <<>>
          /\ running_threads' = {}]_vars

\* C8: no step of a repeated update(w) that found w already gone from
\* RunningWorkers changes a container, starts a thread or raises.
C8_RepeatedUpdateIdle ==
    [][\A w \in Worker :
          (lock = {w} /\ handled[w] >= 1 /\ pc'[w] # pc[w]
              /\ pc[w] # "update_in" /\ ~in_list[w])
          => /\ UNCHANGED <<containers, started>>
             /\ raised'[w] = ""]_vars

\* C9: whenever no call is in progress (start()/stop() have returned and no
\* update() holds the lock), the keys of RunningHandles are the members of
\* RunningWorkers.
C9_HandlesMatchRunning ==
    (pc[Caller] = "idle" /\ lock = {})
    => running_threads = Range(running_workers)

\* C10: no worker is both pending and running, nor twice in either.
C10_OnePlaceEach ==
    /\ NoDuplicates(pending_workers)
    /\ NoDuplicates(running_workers)
    /\ Range(pending_workers) \cap Range(running_workers) = {}

\* a second start() has queued workers while a worker of the first run still
\* runs and another has completed
C10_Witness ==
    /\ starts = 2
    /\ pending_workers # <<>>
    /\ running_workers # <<>>
    /\ \E w \in Worker : pc[w] = "done"

\* w's thread is inside update(w): past the lock, not yet returned
InUpdate(w) ==
    pc[w] \in {"update_in", "update_remove", "update_pending", "update_running",
               "update_notify", "rj_init", "rj_loop", "rj_get", "rj_blocked",
               "rj_subscribe", "rj_thread_start", "rj_record_thread", "rj_record_worker"}

C12_RunJobsNeverBlocks == \A t \in Threads : pc[t] # "rj_blocked"

\* stop() has run to its end: clean_up() has reset the three containers
StopReturned == stops >= 1 /\ pc[Caller] = "idle" /\ raised[Caller] = ""

\* C13: once stop() has reset the containers, none of them holds anything of
\* the run that was stopped (under StopSpec every worker is of that run).
C13_NothingLeaksPastCleanUp ==
    StopReturned =>
        /\ pending_workers = <<>>
        /\ running_workers = <<>>
        /\ running_threads = {}

\* C20: after stop() has returned, the completion signal of a worker that
\* stop() asked to be killed leads to no notify_observers() call.
C20_NoNotificationAfterStop ==
    [][\A w \in Worker :
          (StopReturned /\ w \in killed /\ pc[w] = "update_notify")
              => notified' = notified]_vars

\* number of workers waiting in the queue; a queue that is None holds none
PendingCount == IF pending_none THEN 0 ELSE Len(pending_workers)

C15_HandledStaysRemoved ==
    \A w \in Worker : handled[w] >= 1 => ~InList(w, running_workers)

\* C16: a run_jobs() that finds nothing pending (the queue None or empty) or
\* no free slot at its loop test returns without an error and changes nothing.
C16_RunJobsNoOp ==
    [][\A t \in Threads :
          (/\ pc[t] = "rj_loop"
           /\ pc'[t] # "rj_loop"
           /\ (PendingCount = 0 \/ worker_iteration[t] <= 0))
              => /\ raised'[t] = ""
                 /\ pc'[t] \in {"idle", "done"}
                 /\ containers' = containers
                 /\ started' = started]_vars

\* start() has returned after filling the queue and no dispatch loop or
\* completion handler is in progress
Quiescent ==
    /\ next_id > 1
    /\ pc[Caller] = "idle"
    /\ \A w \in Worker : ~InUpdate(w)

\* C17: in every quiescent state after a successful start() the queue is empty
\* or _running_workers holds exactly max_workers workers.
C17_WorkConserving ==
    Quiescent => (PendingCount = 0 \/ Len(running_workers) = max_workers)

\* C18: within one run no worker's thread is started twice.
C18_StartedAtMostOnce == NoDuplicates(started)

\* two dispatch loops, the caller's and a handler's, have each started a worker
C18_Witness ==
    /\ Len(started) >= 2
    /\ \E w \in Worker : pc[w] = "rj_record_thread" /\ pc[Caller] = "rj_record_thread"

\* C19: the Executor observes every worker whose thread has been started, and
\* every completion signal of a started worker is handled by update().
C19_SubscribedBeforeStarted ==
    /\ Range(started) \subseteq observers
    /\ \A w \in Worker : pc[w] = "done" => handled[w] >= 1

\* a worker has completed and signalled before its dispatcher recorded it
C19_Witness ==
    \E t \in Threads, w \in Worker :
        pc[t] = "rj_record_thread" /\ worker[t] = w /\ pc[w] = "wait"

====
